---- MODULE Spec2Model ----
(***************************************************************************)
(* The loguniform package: the abstract distribution `dist` and its two    *)
(* concrete classes LogUniform and ModifiedLogUniform                      *)
(* (src/loguniform/LogUniform.py).                                         *)
(*                                                                         *)
(* Floating-point numbers are modelled on a grid of step 1/S: the finite   *)
(* number n/S is Fin(n), and every arithmetic operation rounds its exact   *)
(* result to the nearest grid point, as IEEE arithmetic rounds to the      *)
(* nearest double.  The special values nan, +inf and -inf are kept, and a  *)
(* Python exception is a value whose kind is the exception's name.         *)
(***************************************************************************)
EXTENDS Integers, Sequences, FiniteSets, TLC

\* Grid resolution: the number n/S is represented by the integer n.
S == 100

\* Largest distribution parameter drawn (in whole units).
MaxB == 4

\* Largest `size` handed to rvs, and longest `alpha` handed to interval.
MaxSize == 2

\* Rounding tolerance, in grid steps of the logarithm.
Ulps == 2

(***************************************************************************)
(* Values                                                                  *)
(***************************************************************************)
Fin(n) == [kind |-> "fin", v |-> n]
NaN == [kind |-> "nan", v |-> 0]
PInf == [kind |-> "inf", v |-> 1]
NInf == [kind |-> "inf", v |-> -1]
None == [kind |-> "None", v |-> 0]
AssertionError == [kind |-> "AssertionError", v |-> 0]
ValueError == [kind |-> "ValueError", v |-> 0]
ZeroDivisionError == [kind |-> "ZeroDivisionError", v |-> 0]
TypeError == [kind |-> "TypeError", v |-> 0]

Zero == Fin(0)
One == Fin(S)
Two == Fin(2 * S)

IsFin(x) == x.kind = "fin"
IsNaN(x) == x.kind = "nan"
IsInf(x) == x.kind = "inf"
IsExc(x) ==
    x.kind \in {"AssertionError", "ValueError", "ZeroDivisionError", "TypeError"}
IsNum(x) == x.kind \in {"fin", "nan", "inf"}

Abs(n) == IF n < 0 THEN -n ELSE n
Sgn(n) == IF n > 0 THEN 1 ELSE IF n < 0 THEN -1 ELSE 0

\* n/d rounded to the nearest integer (d # 0), halves away from zero.
RDiv(n, d) == Sgn(n) * Sgn(d) * ((2 * Abs(n) + Abs(d)) \div (2 * Abs(d)))

Inf(s) == [kind |-> "inf", v |-> s]
Sign(x) == IF IsInf(x) THEN x.v ELSE Sgn(x.v)

(***************************************************************************)
(* Arithmetic.  An exception raised while an operand was evaluated         *)
(* propagates; nan and the infinities follow IEEE 754.                     *)
(***************************************************************************)
neg(x) ==
    IF IsExc(x) THEN x
    ELSE IF IsFin(x) THEN Fin(-x.v)
    ELSE IF IsInf(x) THEN Inf(-x.v)
    ELSE NaN

add(x, y) ==
    IF IsExc(x) THEN x
    ELSE IF IsExc(y) THEN y
    ELSE IF IsNaN(x) \/ IsNaN(y) THEN NaN
    ELSE IF IsInf(x) THEN (IF IsInf(y) /\ y.v # x.v THEN NaN ELSE x)
    ELSE IF IsInf(y) THEN y
    ELSE Fin(x.v + y.v)

sub(x, y) == add(x, neg(y))

mul(x, y) ==
    IF IsExc(x) THEN x
    ELSE IF IsExc(y) THEN y
    ELSE IF IsNaN(x) \/ IsNaN(y) THEN NaN
    ELSE IF IsInf(x) \/ IsInf(y)
         THEN (IF Sign(x) * Sign(y) = 0 THEN NaN ELSE Inf(Sign(x) * Sign(y)))
    ELSE Fin(RDiv(x.v * y.v, S))

\* numpy's true_divide: a zero divisor gives an infinity or nan, never an error.
npdiv(x, y) ==
    IF IsExc(x) THEN x
    ELSE IF IsExc(y) THEN y
    ELSE IF IsNaN(x) \/ IsNaN(y) THEN NaN
    ELSE IF IsInf(y) THEN (IF IsInf(x) THEN NaN ELSE Zero)
    ELSE IF y.v = 0 THEN (IF Sign(x) = 0 THEN NaN ELSE Inf(Sign(x)))
    ELSE IF IsInf(x) THEN Inf(Sign(x) * Sign(y))
    ELSE Fin(RDiv(x.v * S, y.v))

\* Python's `/` on two Python numbers: a zero divisor raises.
pydiv(x, y) ==
    IF IsExc(x) THEN x
    ELSE IF IsExc(y) THEN y
    ELSE IF IsFin(y) /\ y.v = 0 THEN ZeroDivisionError
    ELSE npdiv(x, y)

\* Comparisons: every comparison with nan is False.
le(x, y) ==
    /\ ~IsNaN(x)
    /\ ~IsNaN(y)
    /\ IF IsInf(x) THEN x.v = -1 \/ (IsInf(y) /\ y.v = 1)
       ELSE IF IsInf(y) THEN y.v = 1
       ELSE x.v <= y.v

lt(x, y) == le(x, y) /\ x # y
gt(x, y) == lt(y, x)

\* np.log on the grid: LnTab[n] is S*ln(n/S) rounded to the nearest integer.
LnTab ==
    << -461, -391, -351, -322, -300, -281, -266, -253, -241, -230, -221, -212, -204, -197, -190, -183, -177, -171, -166, -161,
       -156, -151, -147, -143, -139, -135, -131, -127, -124, -120, -117, -114, -111, -108, -105, -102, -99, -97, -94, -92,
       -89, -87, -84, -82, -80, -78, -76, -73, -71, -69, -67, -65, -63, -62, -60, -58, -56, -54, -53, -51,
       -49, -48, -46, -45, -43, -42, -40, -39, -37, -36, -34, -33, -31, -30, -29, -27, -26, -25, -24, -22,
       -21, -20, -19, -17, -16, -15, -14, -13, -12, -11, -9, -8, -7, -6, -5, -4, -3, -2, -1, 0,
       1, 2, 3, 4, 5, 6, 7, 8, 9, 10, 10, 11, 12, 13, 14, 15, 16, 17, 17, 18,
       19, 20, 21, 22, 22, 23, 24, 25, 25, 26, 27, 28, 29, 29, 30, 31, 31, 32, 33, 34,
       34, 35, 36, 36, 37, 38, 39, 39, 40, 41, 41, 42, 43, 43, 44, 44, 45, 46, 46, 47,
       48, 48, 49, 49, 50, 51, 51, 52, 52, 53, 54, 54, 55, 55, 56, 57, 57, 58, 58, 59,
       59, 60, 60, 61, 62, 62, 63, 63, 64, 64, 65, 65, 66, 66, 67, 67, 68, 68, 69, 69,
       70, 70, 71, 71, 72, 72, 73, 73, 74, 74, 75, 75, 76, 76, 77, 77, 77, 78, 78, 79,
       79, 80, 80, 81, 81, 82, 82, 82, 83, 83, 84, 84, 85, 85, 85, 86, 86, 87, 87, 88,
       88, 88, 89, 89, 90, 90, 90, 91, 91, 92, 92, 92, 93, 93, 94, 94, 94, 95, 95, 96,
       96, 96, 97, 97, 97, 98, 98, 99, 99, 99, 100, 100, 100, 101, 101, 102, 102, 102, 103, 103,
       103, 104, 104, 104, 105, 105, 105, 106, 106, 106, 107, 107, 108, 108, 108, 109, 109, 109, 110, 110,
       110, 111, 111, 111, 112, 112, 112, 112, 113, 113, 113, 114, 114, 114, 115, 115, 115, 116, 116, 116,
       117, 117, 117, 118, 118, 118, 118, 119, 119, 119, 120, 120, 120, 121, 121, 121, 121, 122, 122, 122,
       123, 123, 123, 124, 124, 124, 124, 125, 125, 125, 126, 126, 126, 126, 127, 127, 127, 128, 128, 128,
       128, 129, 129, 129, 129, 130, 130, 130, 131, 131, 131, 131, 132, 132, 132, 132, 133, 133, 133, 134,
       134, 134, 134, 135, 135, 135, 135, 136, 136, 136, 136, 137, 137, 137, 137, 138, 138, 138, 138, 139,
       139, 139, 139, 140, 140, 140, 140, 141, 141, 141, 141, 142, 142, 142, 142, 143, 143, 143, 143, 144,
       144, 144, 144, 144, 145, 145, 145, 145, 146, 146, 146, 146, 147, 147, 147, 147, 147, 148, 148, 148,
       148, 149, 149, 149, 149, 150, 150, 150, 150, 150, 151, 151, 151, 151, 152, 152, 152, 152, 152, 153,
       153, 153, 153, 153, 154, 154, 154, 154, 155, 155, 155, 155, 155, 156, 156, 156, 156, 156, 157, 157,
       157, 157, 157, 158, 158, 158, 158, 159, 159, 159, 159, 159, 160, 160, 160, 160, 160, 161, 161, 161,
       161, 161, 162, 162, 162, 162, 162, 163, 163, 163, 163, 163, 164, 164, 164, 164, 164, 164, 165, 165,
       165, 165, 165, 166, 166, 166, 166, 166, 167, 167, 167, 167, 167, 168, 168, 168, 168, 168, 168, 169,
       169, 169, 169, 169, 170, 170, 170, 170, 170, 170, 171, 171, 171, 171, 171, 172, 172, 172, 172, 172,
       172, 173, 173, 173, 173, 173, 174, 174, 174, 174, 174, 174, 175, 175, 175, 175, 175, 175, 176, 176,
       176, 176, 176, 176, 177, 177, 177, 177, 177, 177, 178, 178, 178, 178, 178, 179, 179, 179, 179, 179,
       179, 180, 180, 180, 180, 180, 180, 181, 181, 181, 181, 181, 181, 181, 182, 182, 182, 182, 182, 182,
       183, 183, 183, 183, 183, 183, 184, 184, 184, 184, 184, 184, 185, 185, 185, 185, 185, 185, 185, 186,
       186, 186, 186, 186, 186, 187, 187, 187, 187, 187, 187, 187, 188, 188, 188, 188, 188, 188, 189, 189,
       189, 189, 189, 189, 189, 190, 190, 190, 190, 190, 190, 191, 191, 191, 191, 191, 191, 191, 192, 192,
       192, 192, 192, 192, 192, 193, 193, 193, 193, 193, 193, 193, 194, 194, 194, 194, 194, 194, 194, 195,
       195, 195, 195, 195, 195, 195, 196, 196, 196, 196, 196, 196, 196, 197, 197, 197, 197, 197, 197, 197,
       198, 198, 198, 198, 198, 198, 198, 199, 199, 199, 199, 199, 199, 199, 199, 200, 200, 200, 200, 200,
       200, 200, 201, 201, 201, 201, 201, 201, 201, 201, 202, 202, 202, 202, 202, 202, 202, 203, 203, 203,
       203, 203, 203, 203, 203, 204, 204, 204, 204, 204, 204, 204, 205, 205, 205, 205, 205, 205, 205, 205,
       206, 206, 206, 206, 206, 206, 206, 206, 207, 207, 207, 207, 207, 207, 207, 207, 208, 208, 208, 208,
       208, 208, 208, 208, 209, 209, 209, 209, 209, 209, 209, 209, 210, 210, 210, 210, 210, 210, 210, 210,
       211, 211, 211, 211, 211, 211, 211, 211, 212, 212, 212, 212, 212, 212, 212, 212, 212, 213, 213, 213,
       213, 213, 213, 213, 213, 214, 214, 214, 214, 214, 214, 214, 214, 214, 215, 215, 215, 215, 215, 215,
       215, 215, 216, 216, 216, 216, 216, 216, 216, 216, 216, 217, 217, 217, 217, 217, 217, 217, 217, 217,
       218, 218, 218, 218, 218, 218, 218, 218, 218, 219, 219, 219, 219, 219, 219, 219, 219, 219, 220, 220,
       220, 220, 220, 220, 220, 220, 220, 221, 221, 221, 221, 221, 221, 221, 221, 221, 222, 222, 222, 222,
       222, 222, 222, 222, 222, 223, 223, 223, 223, 223, 223, 223, 223, 223, 224, 224, 224, 224, 224, 224,
       224, 224, 224, 224, 225, 225, 225, 225, 225, 225, 225, 225, 225, 226, 226, 226, 226, 226, 226, 226,
       226, 226, 226, 227, 227, 227, 227, 227, 227, 227, 227, 227, 228, 228, 228, 228, 228, 228, 228, 228,
       228, 228, 229, 229, 229, 229, 229, 229, 229, 229, 229, 229, 230, 230, 230, 230, 230, 230, 230, 230,
       230, 230, 231, 231, 231, 231, 231, 231, 231, 231, 231, 231, 232, 232, 232, 232, 232, 232, 232, 232,
       232, 232, 233, 233, 233, 233, 233, 233, 233, 233, 233, 233, 234, 234, 234, 234, 234, 234, 234, 234,
       234, 234, 234, 235, 235, 235, 235, 235, 235, 235, 235, 235, 235, 236, 236, 236, 236, 236, 236, 236,
       236, 236, 236, 236, 237, 237, 237, 237, 237, 237, 237, 237, 237, 237, 237, 238, 238, 238, 238, 238,
       238, 238, 238, 238, 238, 239, 239, 239, 239, 239, 239, 239, 239, 239, 239, 239, 240, 240, 240, 240,
       240, 240, 240, 240, 240, 240, 240, 241, 241, 241, 241, 241, 241, 241, 241, 241, 241, 241, 242, 242,
       242, 242, 242, 242, 242, 242, 242, 242, 242, 242, 243, 243, 243, 243, 243, 243, 243, 243, 243, 243,
       243, 244, 244, 244, 244, 244, 244, 244, 244, 244, 244, 244, 244, 245, 245, 245, 245, 245, 245, 245,
       245, 245, 245, 245, 246, 246, 246, 246, 246, 246, 246, 246, 246, 246, 246, 246, 247, 247, 247, 247,
       247, 247, 247, 247, 247, 247, 247, 247, 248, 248, 248, 248, 248, 248, 248, 248, 248, 248, 248, 248 >>

\* np.exp on the grid: ExpTab[n + ExpZero] is S*exp(n/S) rounded to the nearest
\* integer, for n in -400..400.
ExpTab ==
    << 2, 2, 2, 2, 2, 2, 2, 2, 2, 2, 2, 2, 2, 2, 2, 2, 2, 2, 2, 2,
       2, 2, 2, 2, 2, 2, 2, 2, 2, 2, 2, 2, 3, 3, 3, 3, 3, 3, 3, 3,
       3, 3, 3, 3, 3, 3, 3, 3, 3, 3, 3, 3, 3, 3, 3, 3, 3, 3, 3, 3,
       3, 3, 3, 3, 3, 4, 4, 4, 4, 4, 4, 4, 4, 4, 4, 4, 4, 4, 4, 4,
       4, 4, 4, 4, 4, 4, 4, 4, 4, 4, 5, 5, 5, 5, 5, 5, 5, 5, 5, 5,
       5, 5, 5, 5, 5, 5, 5, 5, 5, 5, 6, 6, 6, 6, 6, 6, 6, 6, 6, 6,
       6, 6, 6, 6, 6, 6, 6, 7, 7, 7, 7, 7, 7, 7, 7, 7, 7, 7, 7, 7,
       7, 8, 8, 8, 8, 8, 8, 8, 8, 8, 8, 8, 8, 8, 9, 9, 9, 9, 9, 9,
       9, 9, 9, 9, 9, 10, 10, 10, 10, 10, 10, 10, 10, 10, 10, 11, 11, 11, 11, 11,
       11, 11, 11, 11, 12, 12, 12, 12, 12, 12, 12, 12, 12, 13, 13, 13, 13, 13, 13, 13,
       14, 14, 14, 14, 14, 14, 14, 15, 15, 15, 15, 15, 15, 15, 16, 16, 16, 16, 16, 16,
       17, 17, 17, 17, 17, 17, 18, 18, 18, 18, 18, 18, 19, 19, 19, 19, 19, 20, 20, 20,
       20, 20, 21, 21, 21, 21, 21, 22, 22, 22, 22, 23, 23, 23, 23, 23, 24, 24, 24, 24,
       25, 25, 25, 25, 26, 26, 26, 26, 27, 27, 27, 28, 28, 28, 28, 29, 29, 29, 30, 30,
       30, 30, 31, 31, 31, 32, 32, 32, 33, 33, 33, 34, 34, 34, 35, 35, 35, 36, 36, 36,
       37, 37, 38, 38, 38, 39, 39, 39, 40, 40, 41, 41, 41, 42, 42, 43, 43, 44, 44, 44,
       45, 45, 46, 46, 47, 47, 48, 48, 49, 49, 50, 50, 51, 51, 52, 52, 53, 53, 54, 54,
       55, 55, 56, 57, 57, 58, 58, 59, 59, 60, 61, 61, 62, 63, 63, 64, 64, 65, 66, 66,
       67, 68, 68, 69, 70, 70, 71, 72, 73, 73, 74, 75, 76, 76, 77, 78, 79, 79, 80, 81,
       82, 83, 84, 84, 85, 86, 87, 88, 89, 90, 90, 91, 92, 93, 94, 95, 96, 97, 98, 99,
       100, 101, 102, 103, 104, 105, 106, 107, 108, 109, 111, 112, 113, 114, 115, 116, 117, 119, 120, 121,
       122, 123, 125, 126, 127, 128, 130, 131, 132, 134, 135, 136, 138, 139, 140, 142, 143, 145, 146, 148,
       149, 151, 152, 154, 155, 157, 158, 160, 162, 163, 165, 167, 168, 170, 172, 173, 175, 177, 179, 180,
       182, 184, 186, 188, 190, 192, 193, 195, 197, 199, 201, 203, 205, 208, 210, 212, 214, 216, 218, 220,
       223, 225, 227, 229, 232, 234, 236, 239, 241, 244, 246, 248, 251, 253, 256, 259, 261, 264, 266, 269,
       272, 275, 277, 280, 283, 286, 289, 292, 294, 297, 300, 303, 306, 310, 313, 316, 319, 322, 325, 329,
       332, 335, 339, 342, 346, 349, 353, 356, 360, 363, 367, 371, 374, 378, 382, 386, 390, 394, 397, 401,
       406, 410, 414, 418, 422, 426, 431, 435, 439, 444, 448, 453, 457, 462, 466, 471, 476, 481, 485, 490,
       495, 500, 505, 510, 516, 521, 526, 531, 537, 542, 547, 553, 558, 564, 570, 575, 581, 587, 593, 599,
       605, 611, 617, 623, 630, 636, 642, 649, 655, 662, 669, 675, 682, 689, 696, 703, 710, 717, 724, 732,
       739, 746, 754, 761, 769, 777, 785, 792, 800, 808, 817, 825, 833, 841, 850, 858, 867, 876, 885, 894,
       903, 912, 921, 930, 939, 949, 958, 968, 978, 987, 997, 1007, 1018, 1028, 1038, 1049, 1059, 1070, 1080, 1091,
       1102, 1113, 1125, 1136, 1147, 1159, 1170, 1182, 1194, 1206, 1218, 1230, 1243, 1255, 1268, 1281, 1294, 1307, 1320, 1333,
       1346, 1360, 1374, 1387, 1401, 1415, 1430, 1444, 1459, 1473, 1488, 1503, 1518, 1533, 1549, 1564, 1580, 1596, 1612, 1628,
       1644, 1661, 1678, 1695, 1712, 1729, 1746, 1764, 1781, 1799, 1817, 1836, 1854, 1873, 1892, 1911, 1930, 1949, 1969, 1989,
       2009, 2029, 2049, 2070, 2091, 2112, 2133, 2154, 2176, 2198, 2220, 2242, 2265, 2287, 2310, 2334, 2357, 2381, 2405, 2429,
       2453, 2478, 2503, 2528, 2553, 2579, 2605, 2631, 2658, 2684, 2711, 2739, 2766, 2794, 2822, 2850, 2879, 2908, 2937, 2967,
       2996, 3027, 3057, 3088, 3119, 3150, 3182, 3214, 3246, 3279, 3312, 3345, 3378, 3412, 3447, 3481, 3516, 3552, 3587, 3623,
       3660, 3697, 3734, 3771, 3809, 3847, 3886, 3925, 3965, 4004, 4045, 4085, 4126, 4168, 4210, 4252, 4295, 4338, 4382, 4426,
       4470, 4515, 4560, 4606, 4653, 4699, 4747, 4794, 4842, 4891, 4940, 4990, 5040, 5091, 5142, 5194, 5246, 5298, 5352, 5405,
       5460 >>

\* Index of the argument 0 in ExpTab.
ExpZero == (Len(ExpTab) + 1) \div 2

\* Mutant: math.log, which raises outside its domain.
log_math(x) ==
    IF IsExc(x) THEN x
    ELSE IF IsNaN(x) THEN NaN
    ELSE IF IsInf(x) THEN (IF x.v = 1 THEN PInf ELSE ValueError)
    ELSE IF x.v <= 0 THEN ValueError
    ELSE Fin(LnTab[x.v])

\* np.log
log(x) ==
    IF IsExc(x) THEN x
    ELSE IF IsNaN(x) THEN NaN
    ELSE IF IsInf(x) THEN (IF x.v = 1 THEN PInf ELSE NaN)
    ELSE IF x.v = 0 THEN NInf
    ELSE IF x.v < 0 THEN NaN
    ELSE Fin(LnTab[x.v])

\* np.exp
exp(x) ==
    IF IsExc(x) THEN x
    ELSE IF IsNaN(x) THEN NaN
    ELSE IF IsInf(x) THEN (IF x.v = 1 THEN PInf ELSE Zero)
    ELSE Fin(ExpTab[x.v + ExpZero])

\* np.where on one element: both branches are evaluated before the call, so an
\* exception raised in either one propagates whatever the mask says.
where(m, x, y) ==
    IF IsExc(x) THEN x
    ELSE IF IsExc(y) THEN y
    ELSE IF m THEN x ELSE y

(***************************************************************************)
(* State                                                                   *)
(***************************************************************************)
VARIABLES
    classAttrs,   \* the attributes set in the two class bodies
    inst,         \* the instances: name -> [cls, d], d the instance's __dict__
    last          \* the last call: operation, receiver, arguments, outcome

vars == <<classAttrs, inst, last>>

\* The names a caller binds instances to.
Names == {"d1", "d2"}

\* A name not bound yet.
Absent == [cls |-> "none", d |-> << >>]

\* Attribute lookup: the instance's __dict__ first, then the class body.
attr(o, n) == IF n \in DOMAIN o.d THEN o.d[n] ELSE classAttrs[o.cls][n]

(***************************************************************************)
(* class dist                                                              *)
(***************************************************************************)
\* Mutant: the lower comparison is strict.
support_mask_strict(o, x) == lt(attr(o, "a"), x) /\ le(x, attr(o, "b"))

support_mask(o, x) == le(attr(o, "a"), x) /\ le(x, attr(o, "b"))

separate_support_mask(o, x) == <<le(attr(o, "a"), x), le(x, attr(o, "b"))>>

(***************************************************************************)
(* class LogUniform                                                        *)
(***************************************************************************)
\* Mutant: the order of the bounds is not checked.
LogUniform_init_unordered(a, b) ==
    IF ~(gt(a, Zero) /\ gt(b, Zero)) THEN AssertionError
    ELSE LET q == sub(log(b), log(a))
         IN  IF IsExc(q) THEN q ELSE [a |-> a, b |-> b, q |-> q]

LogUniform_init(a, b) ==
    IF ~(gt(a, Zero) /\ gt(b, Zero)) THEN AssertionError
    ELSE IF ~gt(b, a) THEN AssertionError
    ELSE LET q == sub(log(b), log(a))
         IN  IF IsExc(q) THEN q ELSE [a |-> a, b |-> b, q |-> q]

LogUniform_pdf(o, x) ==
    LET m == support_mask(o, x)
    IN  where(m, npdiv(One, mul(x, attr(o, "q"))), Zero)

\* Mutant: outside the support the result is 0, as in the file's earlier revision.
LogUniform_logpdf_zero(o, x) ==
    LET m == support_mask(o, x)
    IN  where(m, neg(log(mul(x, log(attr(o, "q"))))), Zero)

LogUniform_logpdf(o, x) ==
    LET m == support_mask(o, x)
    IN  where(m, neg(log(mul(x, log(attr(o, "q"))))), NInf)

LogUniform_cdf(o, x) ==
    LET m == separate_support_mask(o, x)
    IN  where(m[2],
              where(m[1], npdiv(log(npdiv(x, attr(o, "a"))), attr(o, "q")), Zero),
              One)

\* Mutant: the quantile is not scaled by q.
LogUniform_ppf_unscaled(o, p) == exp(add(log(attr(o, "a")), p))

LogUniform_ppf(o, p) == exp(add(log(attr(o, "a")), mul(p, attr(o, "q"))))

(***************************************************************************)
(* class ModifiedLogUniform                                                *)
(***************************************************************************)
\* Mutant: the knee is not compared with the upper bound.
ModifiedLogUniform_init_unordered(knee, b) ==
    IF ~gt(b, Zero) THEN AssertionError
    ELSE IF ~gt(knee, Zero) THEN AssertionError
    ELSE LET q == log(pydiv(add(b, knee), knee))
         IN  IF IsExc(q) THEN q ELSE [b |-> b, knee |-> knee, q |-> q]

ModifiedLogUniform_init(knee, b) ==
    IF ~gt(b, Zero) THEN AssertionError
    ELSE IF ~gt(knee, Zero) THEN AssertionError
    ELSE IF ~gt(b, knee) THEN AssertionError
    ELSE LET q == log(pydiv(add(b, knee), knee))
         IN  IF IsExc(q) THEN q ELSE [b |-> b, knee |-> knee, q |-> q]

ModifiedLogUniform_pdf(o, x) ==
    LET m == support_mask(o, x)
    IN  where(m, npdiv(One, mul(add(x, attr(o, "knee")), attr(o, "q"))), Zero)

ModifiedLogUniform_logpdf(o, x) ==
    LET m == support_mask(o, x)
    IN  where(m, sub(neg(log(add(x, attr(o, "knee")))), log(attr(o, "q"))), NInf)

ModifiedLogUniform_cdf(o, x) ==
    LET r == pydiv(attr(o, "b"), attr(o, "knee"))
    IN  npdiv(log(add(pydiv(x, attr(o, "knee")), One)), log(add(r, One)))

ModifiedLogUniform_ppf(o, p) ==
    mul(attr(o, "knee"),
        add(neg(One),
            exp(mul(log(add(pydiv(attr(o, "b"), attr(o, "knee")), One)), p))))

(***************************************************************************)
(* Moments                                                                 *)
(***************************************************************************)
\* The Python integer literal k.
N(k) == Fin(k * S)

RECURSIVE Newton(_, _)
Newton(m, x) ==
    LET y == (x + m \div x) \div 2
    IN  IF y >= x THEN x ELSE Newton(m, y)

\* The square root of m rounded to the nearest integer (m >= 0).
ISqrt(m) ==
    IF m = 0 THEN 0
    ELSE LET r == Newton(m, m)
         IN  IF m - r * r > r THEN r + 1 ELSE r

\* np.sqrt
sqrt(x) ==
    IF IsExc(x) THEN x
    ELSE IF IsNaN(x) THEN NaN
    ELSE IF IsInf(x) THEN (IF x.v = 1 THEN PInf ELSE NaN)
    ELSE IF x.v < 0 THEN NaN
    ELSE Fin(ISqrt(x.v * S))

\* x**2, x**3, x**4 and x**(3/2)
pow2(x) == mul(x, x)
pow3(x) == mul(mul(x, x), x)
pow4(x) == mul(mul(mul(x, x), x), x)
pow32(x) == mul(x, sqrt(x))

LogUniform_mean(o) == npdiv(sub(attr(o, "b"), attr(o, "a")), attr(o, "q"))

LogUniform_mode(o) == attr(o, "a")

LogUniform_var(o) ==
    LET a == attr(o, "a")
        b == attr(o, "b")
        q == attr(o, "q")
    IN  npdiv(mul(sub(b, a), add(mul(b, sub(q, N(2))), mul(a, add(q, N(2))))),
              mul(N(2), pow2(q)))

LogUniform_std(o) == sqrt(LogUniform_var(o))

LogUniform_skewness(o) ==
    LET a == attr(o, "a")
        b == attr(o, "b")
        q == attr(o, "q")
        f1 == mul(sqrt(N(2)),
                  add(mul(mul(N(12), q), pow2(sub(a, b))),
                      mul(pow2(q),
                          add(add(mul(pow2(b), sub(mul(N(2), q), N(9))),
                                  mul(mul(mul(N(2), a), b), q)),
                              mul(pow2(a), add(mul(N(2), q), N(9)))))))
        f2 == mul(mul(mul(N(3), q), sqrt(sub(b, a))),
                  pow32(add(mul(b, sub(q, N(2))), mul(a, add(q, N(2))))))
    IN  npdiv(f1, f2)

LogUniform_kurtosis(o) ==
    LET a == attr(o, "a")
        b == attr(o, "b")
        q == attr(o, "q")
        f1 == add(sub(sub(mul(mul(mul(N(36), q), pow2(sub(b, a))), add(a, b)),
                          mul(N(36), pow3(sub(b, a)))),
                      mul(mul(N(16), pow2(q)), sub(pow3(b), pow3(a)))),
                  mul(mul(mul(N(3), pow3(q)), add(pow2(b), pow2(a))), add(a, b)))
        f2 == mul(mul(N(3), sub(b, a)),
                  pow2(add(mul(b, sub(q, N(2))), mul(a, add(q, N(2))))))
    IN  sub(npdiv(f1, f2), N(3))

ModifiedLogUniform_mean(o) ==
    LET b == attr(o, "b")
        knee == attr(o, "knee")
        q == attr(o, "q")
    IN  npdiv(sub(add(b, mul(knee, log(knee))), mul(knee, log(add(knee, b)))), q)

ModifiedLogUniform_mode(o) == attr(o, "a")

ModifiedLogUniform_var(o) ==
    LET b == attr(o, "b")
        knee == attr(o, "knee")
        q == attr(o, "q")
        mu == ModifiedLogUniform_mean(o)
        lk == log(knee)
        lkb == log(add(knee, b))
    IN  npdiv(add(add(add(sub(sub(pow2(b), mul(mul(N(2), b), knee)),
                              mul(mul(N(2), pow2(knee)), lk)),
                          mul(mul(N(2), pow2(knee)), lkb)),
                      mul(sub(sub(mul(mul(N(4), knee), lkb), mul(mul(N(4), knee), lk)),
                              mul(N(4), b)),
                          mu)),
                  mul(sub(mul(N(2), lkb), mul(N(2), lk)), pow2(mu))),
              mul(N(2), q))

ModifiedLogUniform_std(o) == sqrt(ModifiedLogUniform_var(o))

ModifiedLogUniform_skewness(o) ==
    LET b == attr(o, "b")
        knee == attr(o, "knee")
        q == attr(o, "q")
        mu == ModifiedLogUniform_mean(o)
        var == ModifiedLogUniform_var(o)
        lk == log(knee)
        lkb == log(add(knee, b))
        t0 == add(sub(sub(add(mul(N(-2), pow3(b)), mul(mul(N(3), pow2(b)), knee)),
                          mul(mul(N(6), b), pow2(knee))),
                      mul(mul(N(6), pow3(knee)), lk)),
                  mul(mul(N(6), pow3(knee)), lkb))
        t1 == mul(add(sub(sub(mul(mul(N(18), pow2(knee)), lkb),
                              mul(mul(N(18), pow2(knee)), lk)),
                          mul(mul(N(18), b), knee)),
                      mul(N(9), pow2(b))),
                  mu)
        t2 == mul(sub(sub(mul(mul(N(18), knee), lkb), mul(mul(N(18), knee), lk)),
                      mul(N(18), b)),
                  pow2(mu))
        t3 == mul(sub(mul(N(6), lkb), mul(N(6), lk)), pow3(mu))
    IN  npdiv(neg(add(add(add(t0, t1), t2), t3)), mul(mul(N(6), q), pow32(var)))

ModifiedLogUniform_kurtosis(o) ==
    LET b == attr(o, "b")
        knee == attr(o, "knee")
        q == attr(o, "q")
        mu == ModifiedLogUniform_mean(o)
        var == ModifiedLogUniform_var(o)
        lk == log(knee)
        lkb == log(add(knee, b))
        t0 == sub(add(add(sub(add(mul(N(-3), pow4(b)), mul(mul(N(4), pow3(b)), knee)),
                              mul(mul(N(6), pow2(b)), pow2(knee))),
                          mul(mul(N(12), b), pow3(knee))),
                      mul(mul(N(12), pow4(knee)), lk)),
                  mul(mul(N(12), pow4(knee)), lkb))
        t1 == mul(add(sub(add(add(mul(mul(N(-48), pow3(knee)), lkb),
                                  mul(mul(N(48), pow3(knee)), lk)),
                              mul(mul(N(48), b), pow2(knee))),
                          mul(mul(N(24), pow2(b)), knee)),
                      mul(N(16), pow3(b))),
                  mu)
        t2 == mul(sub(add(add(mul(mul(N(-72), pow2(knee)), lkb),
                              mul(mul(N(72), pow2(knee)), lk)),
                          mul(mul(N(72), b), knee)),
                      mul(N(36), pow2(b))),
                  pow2(mu))
        t3 == mul(add(add(mul(mul(N(-48), knee), lkb), mul(mul(N(48), knee), lk)),
                      mul(N(48), b)),
                  pow3(mu))
        t4 == mul(sub(mul(N(12), lk), mul(N(12), lkb)), pow4(mu))
        t5 == mul(mul(N(36), q), pow2(var))
    IN  npdiv(neg(add(add(add(add(add(t0, t1), t2), t3), t4), t5)),
              mul(mul(N(12), q), pow2(var)))

\* The six properties, by name.
Moments == {"mean", "mode", "var", "std", "skewness", "kurtosis"}

moment(o, name) ==
    IF o.cls = "LogUniform"
    THEN CASE name = "mean" -> LogUniform_mean(o)
           [] name = "mode" -> LogUniform_mode(o)
           [] name = "var" -> LogUniform_var(o)
           [] name = "std" -> LogUniform_std(o)
           [] name = "skewness" -> LogUniform_skewness(o)
           [] name = "kurtosis" -> LogUniform_kurtosis(o)
    ELSE CASE name = "mean" -> ModifiedLogUniform_mean(o)
           [] name = "mode" -> ModifiedLogUniform_mode(o)
           [] name = "var" -> ModifiedLogUniform_var(o)
           [] name = "std" -> ModifiedLogUniform_std(o)
           [] name = "skewness" -> ModifiedLogUniform_skewness(o)
           [] name = "kurtosis" -> ModifiedLogUniform_kurtosis(o)

(***************************************************************************)
(* Method dispatch and the methods inherited from dist                     *)
(***************************************************************************)
pdf(o, x) ==
    IF o.cls = "LogUniform" THEN LogUniform_pdf(o, x) ELSE ModifiedLogUniform_pdf(o, x)

logpdf(o, x) ==
    IF o.cls = "LogUniform" THEN LogUniform_logpdf(o, x)
    ELSE ModifiedLogUniform_logpdf(o, x)

cdf(o, x) ==
    IF o.cls = "LogUniform" THEN LogUniform_cdf(o, x) ELSE ModifiedLogUniform_cdf(o, x)

ppf(o, p) ==
    IF o.cls = "LogUniform" THEN LogUniform_ppf(o, p) ELSE ModifiedLogUniform_ppf(o, p)

sf(o, x) == sub(One, cdf(o, x))

\* rvs: u is the array np.random.uniform(size=size) drew.
\* The result is the scalar np.asscalar(s) when size == 1 and the array s otherwise.
rvs(o, size, u) ==
    LET s == [i \in 1..Len(u) |-> ppf(o, u[i])]
    IN  [scalar |-> (size = 1), vals |-> s]

\* interval: the error test on alpha.
\* Mutant: only the upper end of alpha is tested.
interval_bad_upper(alpha) == \E i \in 1..Len(alpha) : gt(alpha[i], One)

interval_bad(alpha) ==
    \E i \in 1..Len(alpha) : gt(alpha[i], One) \/ lt(alpha[i], Zero)

interval_q1(alpha) == [i \in 1..Len(alpha) |-> npdiv(sub(One, alpha[i]), Two)]

interval_q2(alpha) == [i \in 1..Len(alpha) |-> npdiv(add(One, alpha[i]), Two)]

interval(o, alpha) ==
    LET q1 == interval_q1(alpha)
        q2 == interval_q2(alpha)
        a == [i \in 1..Len(alpha) |-> ppf(o, q1[i])]
        b == [i \in 1..Len(alpha) |-> ppf(o, q2[i])]
    IN  <<a, b>>

(***************************************************************************)
(* Inputs                                                                  *)
(***************************************************************************)
\* Constructor arguments: -1, 0, 1, ..., MaxB and nan.
Params == {Fin(k * S) : k \in -1..MaxB} \cup {NaN}

\* Arguments of pdf, logpdf, cdf and sf: -2, -1.5, ..., MaxB + 1 and the specials.
Xs == {Fin(k * (S \div 2)) : k \in -4..(2 * (MaxB + 1))} \cup {NaN, PInf, NInf}

\* Arguments of ppf: -0.5, -0.25, ..., 1.5 and the specials.
Ps == {Fin(k * (S \div 4)) : k \in -2..6} \cup {NaN, PInf, NInf}

\* The values np.random.uniform can draw, in [0, 1).
Us == {Zero, Fin(S \div 2), Fin(S - 1)}

\* The values of alpha.
Alphas == {Fin(-(S \div 4)), Zero, Fin(S \div 2), One, Fin(S + S \div 4)}

\* The inputs of the program with two distributions.
Params2 == {Fin(k * S) : k \in 0..3}
Xs2 == {Zero, Two, NaN}
Ps2 == {Zero, Fin(S \div 2)}
Us2 == {Zero}
Alphas2 == {Fin(S \div 2), Two}

\* The two classes, and the keyword arguments a constructor is called with: any
\* subset of the names a, b, knee, each with the value 1 or 2.
Classes == {"LogUniform", "ModifiedLogUniform"}
Kwargs == UNION {[D -> {One, Two}] : D \in SUBSET {"a", "b", "knee"}}

SeqsOf(T, n) == UNION {[1..k -> T] : k \in 0..n}

(***************************************************************************)
(* Initial state: the two class bodies have run, no instance exists.       *)
(***************************************************************************)
Init ==
    /\ classAttrs = [LogUniform |-> [a |-> None, b |-> None],
                     ModifiedLogUniform |->
                         [a |-> Zero, b |-> Fin(100 * S), knee |-> One]]
    /\ inst = [n \in Names |-> Absent]
    /\ last = [op |-> "none", who |-> "none", args |-> << >>,
               raised |-> FALSE, out |-> None]

(***************************************************************************)
(* Actions                                                                 *)
(***************************************************************************)
\* __init__ returns an instance __dict__ unless it raised.
InitRaised(r) == "kind" \in DOMAIN r

\* Mutant: the constructor stores the bounds on the class.
NewLogUniform_onclass(n, a, b) ==
    LET r == LogUniform_init(a, b)
    IN  /\ inst[n] = Absent
        /\ inst' = IF InitRaised(r) THEN inst
                   ELSE [inst EXCEPT ![n] = [cls |-> "LogUniform", d |-> [q |-> r.q]]]
        /\ last' = [op |-> "LogUniform", who |-> n, args |-> <<a, b>>,
                    raised |-> InitRaised(r), out |-> IF InitRaised(r) THEN r ELSE None]
        /\ classAttrs' = IF InitRaised(r) THEN classAttrs
                         ELSE [classAttrs EXCEPT !.LogUniform = [a |-> a, b |-> b]]

\* n = LogUniform(a, b)
NewLogUniform(n, a, b) ==
    LET r == LogUniform_init(a, b)
    IN  /\ inst[n] = Absent
        /\ inst' = IF InitRaised(r) THEN inst
                   ELSE [inst EXCEPT ![n] = [cls |-> "LogUniform", d |-> r]]
        /\ last' = [op |-> "LogUniform", who |-> n, args |-> <<a, b>>,
                    raised |-> InitRaised(r), out |-> IF InitRaised(r) THEN r ELSE None]
        /\ UNCHANGED classAttrs

\* n = ModifiedLogUniform(knee, b)
NewModifiedLogUniform(n, knee, b) ==
    LET r == ModifiedLogUniform_init(knee, b)
    IN  /\ inst[n] = Absent
        /\ inst' = IF InitRaised(r) THEN inst
                   ELSE [inst EXCEPT ![n] = [cls |-> "ModifiedLogUniform", d |-> r]]
        /\ last' = [op |-> "ModifiedLogUniform", who |-> n, args |-> <<knee, b>>,
                    raised |-> InitRaised(r), out |-> IF InitRaised(r) THEN r ELSE None]
        /\ UNCHANGED classAttrs

\* The parameters of __init__ after self.
Signature(cls) == IF cls = "LogUniform" THEN <<"a", "b">> ELSE <<"knee", "b">>

\* Mutant: both parameters are optional and default to None.
bind_optional(cls, kw) ==
    LET sig == Signature(cls)
        val(name) == IF name \in DOMAIN kw THEN kw[name] ELSE None
    IN  IF ~(DOMAIN kw \subseteq {sig[1], sig[2]})
        THEN [raised |-> TRUE, args |-> << >>]
        ELSE [raised |-> FALSE, args |-> <<val(sig[1]), val(sig[2])>>]

\* Python's binding of a call that passes keyword arguments only: a keyword that is
\* no parameter, or a parameter left without a value (neither has a default), is a
\* TypeError.
bind(cls, kw) ==
    LET sig == Signature(cls)
    IN  IF DOMAIN kw # {sig[1], sig[2]}
        THEN [raised |-> TRUE, args |-> << >>]
        ELSE [raised |-> FALSE, args |-> <<kw[sig[1]], kw[sig[2]]>>]

\* n = cls(**kw)
NewKeywords(n, cls, kw) ==
    LET bd == bind(cls, kw)
        r == IF bd.raised THEN TypeError
             ELSE IF cls = "LogUniform" THEN LogUniform_init(bd.args[1], bd.args[2])
             ELSE ModifiedLogUniform_init(bd.args[1], bd.args[2])
    IN  /\ inst[n] = Absent
        /\ inst' = IF InitRaised(r) THEN inst
                   ELSE [inst EXCEPT ![n] = [cls |-> cls, d |-> r]]
        /\ last' = [op |-> IF cls = "LogUniform" THEN "LogUniform_kw"
                            ELSE "ModifiedLogUniform_kw",
                    who |-> n, args |-> <<kw>>,
                    raised |-> InitRaised(r), out |-> IF InitRaised(r) THEN r ELSE None]
        /\ UNCHANGED classAttrs

\* The record of a call that returned (or raised) the number r.
Returned(op, n, args, r) ==
    [op |-> op, who |-> n, args |-> args, raised |-> IsExc(r), out |-> r]

\* n.pdf(x)
CallPdf(n, x) ==
    /\ inst[n] # Absent
    /\ last' = Returned("pdf", n, <<x>>, pdf(inst[n], x))
    /\ UNCHANGED <<classAttrs, inst>>

\* n.logpdf(x)
CallLogpdf(n, x) ==
    /\ inst[n] # Absent
    /\ last' = Returned("logpdf", n, <<x>>, logpdf(inst[n], x))
    /\ UNCHANGED <<classAttrs, inst>>

\* n.cdf(x)
CallCdf(n, x) ==
    /\ inst[n] # Absent
    /\ last' = Returned("cdf", n, <<x>>, cdf(inst[n], x))
    /\ UNCHANGED <<classAttrs, inst>>

\* n.ppf(p)
CallPpf(n, p) ==
    /\ inst[n] # Absent
    /\ last' = Returned("ppf", n, <<p>>, ppf(inst[n], p))
    /\ UNCHANGED <<classAttrs, inst>>

\* n.sf(x)
CallSf(n, x) ==
    /\ inst[n] # Absent
    /\ last' = Returned("sf", n, <<x>>, sf(inst[n], x))
    /\ UNCHANGED <<classAttrs, inst>>

\* n.rvs(size), and n.rvs() when given is FALSE (size defaults to 1)
CallRvs(n, given, size, u) ==
    /\ inst[n] # Absent
    /\ given \/ size = 1
    /\ Len(u) = size
    /\ last' = [op |-> "rvs", who |-> n,
                args |-> IF given THEN <<size, u>> ELSE <<u>>,
                raised |-> \E i \in 1..Len(u) : IsExc(ppf(inst[n], u[i])),
                out |-> rvs(inst[n], size, u)]
    /\ UNCHANGED <<classAttrs, inst>>

\* n.mean, n.mode, n.var, n.std, n.skewness, n.kurtosis
GetMoment(n, name) ==
    /\ inst[n] # Absent
    /\ last' = Returned(name, n, << >>, moment(inst[n], name))
    /\ UNCHANGED <<classAttrs, inst>>

\* n.interval(alpha)
CallInterval(n, alpha) ==
    /\ inst[n] # Absent
    /\ last' = [op |-> "interval", who |-> n, args |-> <<alpha>>,
                raised |-> interval_bad(alpha),
                out |-> IF interval_bad(alpha) THEN ValueError
                        ELSE interval(inst[n], alpha)]
    /\ UNCHANGED <<classAttrs, inst>>

\* One step of a program that uses the name n, with its inputs drawn from the
\* given sets.
Step(n, params, xs, ps, usq, alphasq) ==
    \/ \E a \in params, b \in params : NewLogUniform(n, a, b)
    \/ \E knee \in params, b \in params : NewModifiedLogUniform(n, knee, b)
    \/ \E cls \in Classes, kw \in Kwargs : NewKeywords(n, cls, kw)
    \/ \E x \in xs : CallPdf(n, x)
    \/ \E x \in xs : CallLogpdf(n, x)
    \/ \E x \in xs : CallCdf(n, x)
    \/ \E p \in ps : CallPpf(n, p)
    \/ \E x \in xs : CallSf(n, x)
    \/ \E given \in BOOLEAN, u \in usq : CallRvs(n, given, Len(u), u)
    \/ \E alpha \in alphasq : CallInterval(n, alpha)
    \/ \E name \in Moments : GetMoment(n, name)

\* A program with one distribution.
Next ==
    Step("d1", Params, Xs, Ps, SeqsOf(Us, MaxSize), SeqsOf(Alphas, MaxSize) \ {<< >>})

Spec == Init /\ [][Next]_vars

\* A program with two distributions, on fewer inputs.
NextTwo ==
    \E n \in Names :
        Step(n, Params2, Xs2, Ps2, SeqsOf(Us2, 1), SeqsOf(Alphas2, 1) \ {<< >>})

SpecTwo == Init /\ [][NextTwo]_vars

(***************************************************************************)
(* Properties                                                              *)
(***************************************************************************)
\* The receiver and the first argument of the last call.
Recv == inst[last.who]
Arg1 == last.args[1]

\* x is a finite number greater than 0.
Positive(x) == IsFin(x) /\ x.v > 0

\* The lower bound of the support of o: a for LogUniform, 0 for ModifiedLogUniform.
Lower(o) == IF o.cls = "LogUniform" THEN o.d.a ELSE Zero

\* x lies in the closed support of o.
InSupport(o, x) ==
    \/ IsFin(x) /\ Lower(o).v <= x.v /\ x.v <= o.d.b.v

\* C1: LogUniform(a, b) succeeds exactly when a > 0, b > 0 and b > a; otherwise it
\* raises and binds no instance. On success the instance's a and b are the arguments
\* and q = ln(b) - ln(a).
C1_LogUniformConstruction ==
    last.op = "LogUniform" =>
        LET a == last.args[1]
            b == last.args[2]
            valid == Positive(a) /\ Positive(b) /\ b.v > a.v
        IN  /\ last.raised <=> ~valid
            /\ last.raised => Recv = Absent /\ IsExc(last.out)
            /\ ~last.raised =>
                   /\ Recv.cls = "LogUniform"
                   /\ attr(Recv, "a") = a
                   /\ attr(Recv, "b") = b
                   /\ attr(Recv, "q") = Fin(LnTab[b.v] - LnTab[a.v])

\* C1 witness: a LogUniform was just constructed from valid bounds.
C1_Witness ==
    /\ last.op = "LogUniform"
    /\ ~last.raised
    /\ Recv.cls = "LogUniform"
    /\ Recv.d.q.v > 0

\* C2: ModifiedLogUniform(knee, b) succeeds exactly when b > 0, knee > 0 and b > knee;
\* otherwise it raises and binds no instance. On success knee and b are the arguments,
\* a is 0 and q = ln((b + knee) / knee).
C2_ModifiedLogUniformConstruction ==
    last.op = "ModifiedLogUniform" =>
        LET knee == last.args[1]
            b == last.args[2]
            valid == Positive(b) /\ Positive(knee) /\ b.v > knee.v
        IN  /\ last.raised <=> ~valid
            /\ last.raised => Recv = Absent /\ IsExc(last.out)
            /\ ~last.raised =>
                   /\ Recv.cls = "ModifiedLogUniform"
                   /\ attr(Recv, "knee") = knee
                   /\ attr(Recv, "b") = b
                   /\ attr(Recv, "a") = Zero
                   /\ attr(Recv, "q") = Fin(LnTab[RDiv((b.v + knee.v) * S, knee.v)])

\* C2 witness: a ModifiedLogUniform was just constructed from a valid knee and bound.
C2_Witness ==
    /\ last.op = "ModifiedLogUniform"
    /\ ~last.raised
    /\ Recv.cls = "ModifiedLogUniform"
    /\ Recv.d.knee.v > 0

\* C3: pdf(x) is 0 for every x outside the closed support and strictly positive for
\* every x inside it, the two boundary points included; it never raises.
C3_PdfSupport ==
    last.op = "pdf" =>
        /\ ~last.raised
        /\ InSupport(Recv, Arg1) => IsFin(last.out) /\ last.out.v > 0
        /\ ~InSupport(Recv, Arg1) => last.out = Zero

\* C3 witness: pdf was evaluated at the upper boundary b and is positive there.
C3_Witness ==
    /\ last.op = "pdf"
    /\ Arg1 = Recv.d.b
    /\ last.out.v > 0
\* C4: cdf(x) is a probability, a finite value in [0, 1], for both classes and every x.
C4_CdfIsProbability ==
    last.op = "cdf" => IsFin(last.out) /\ 0 <= last.out.v /\ last.out.v <= S

\* C5: LogUniform.cdf(x) is 0 for x < a, ln(x/a)/q for a <= x <= b and 1 for x > b;
\* cdf(a) = 0, cdf(b) = 1, and cdf is non-decreasing in x.
C5_LogUniformCdf ==
    (last.op = "cdf" /\ Recv.cls = "LogUniform" /\ IsFin(Arg1)) =>
        LET a == Recv.d.a
            b == Recv.d.b
            q == Recv.d.q
            x == Arg1
        IN  /\ x.v < a.v => last.out = Zero
            /\ (a.v <= x.v /\ x.v <= b.v) =>
                   last.out = Fin(RDiv(LnTab[RDiv(x.v * S, a.v)] * S, q.v))
            /\ x.v > b.v => last.out = One
            /\ x = a => last.out = Zero
            /\ x = b => last.out = One
            /\ \A y \in Xs : le(x, y) => le(last.out, cdf(Recv, y))
\* The factor the logarithm is divided by in cdf: q for LogUniform, ln(b/knee + 1)
\* for ModifiedLogUniform.
LogRange(o) ==
    IF o.cls = "LogUniform" THEN o.d.q
    ELSE Fin(LnTab[RDiv(o.d.b.v * S, o.d.knee.v) + S])

\* The magnitude the exponential is scaled to in ppf: b for LogUniform, b + knee for
\* ModifiedLogUniform.
Scale(o) == IF o.cls = "LogUniform" THEN o.d.b.v ELSE o.d.b.v + o.d.knee.v

\* C6: for p in [0, 1], cdf(ppf(p)) equals p within the rounding tolerance (Ulps grid
\* steps of the logarithm, relative to its range), and ppf(0), ppf(1) equal the lower
\* bound and b within the same tolerance (relative to the magnitude of the bounds).
C6_RoundTrip ==
    (last.op = "ppf" /\ le(Zero, Arg1) /\ le(Arg1, One)) =>
        LET p == Arg1
            x == last.out
            rt == cdf(Recv, x)
        IN  /\ IsFin(x)
            /\ IsFin(rt)
            /\ Abs(rt.v - p.v) * LogRange(Recv).v <= Ulps * S
            /\ p = Zero => Abs(x.v - Lower(Recv).v) * S <= Ulps * Scale(Recv)
            /\ p = One => Abs(x.v - Recv.d.b.v) * S <= Ulps * Scale(Recv)

\* C6 witness: ppf was evaluated at p = 1/2 and returned a point of the support.
C6_Witness ==
    /\ last.op = "ppf"
    /\ Arg1 = Fin(S \div 2)
    /\ InSupport(Recv, last.out)
    /\ last.out # Recv.d.b

\* C7: rvs returns a scalar exactly when size == 1 (also when size is omitted) and
\* otherwise size values, and every value v returned satisfies lower <= v <= b.
C7_RvsInSupport ==
    last.op = "rvs" =>
        LET u == last.args[Len(last.args)]
        IN  /\ ~last.raised
            /\ last.out.scalar <=> (Len(u) = 1)
            /\ Len(last.out.vals) = Len(u)
            /\ \A i \in 1..Len(u) : InSupport(Recv, last.out.vals[i])

\* C8: interval(alpha) raises when some alpha is < 0 or > 1; otherwise it returns the
\* pair (ppf((1 - alpha)/2), ppf((1 + alpha)/2)), the lower element <= the upper one,
\* both quantile arguments in [0, 1].
C8_Interval ==
    last.op = "interval" =>
        LET alpha == Arg1
            outside == \E i \in 1..Len(alpha) : alpha[i].v < 0 \/ alpha[i].v > S
            q1 == [i \in 1..Len(alpha) |-> Fin(RDiv((S - alpha[i].v) * S, 2 * S))]
            q2 == [i \in 1..Len(alpha) |-> Fin(RDiv((S + alpha[i].v) * S, 2 * S))]
        IN  /\ last.raised <=> outside
            /\ last.raised => last.out = ValueError
            /\ ~last.raised =>
                   /\ last.out[1] = [i \in 1..Len(alpha) |-> ppf(Recv, q1[i])]
                   /\ last.out[2] = [i \in 1..Len(alpha) |-> ppf(Recv, q2[i])]
                   /\ \A i \in 1..Len(alpha) :
                          /\ le(last.out[1][i], last.out[2][i])
                          /\ 0 <= q1[i].v /\ q1[i].v <= S
                          /\ 0 <= q2[i].v /\ q2[i].v <= S

\* C8 witness: interval returned for an alpha strictly inside (0, 1), with distinct ends.
C8_Witness ==
    /\ last.op = "interval"
    /\ ~last.raised
    /\ Arg1[1] = Fin(S \div 2)
    /\ lt(last.out[1][1], last.out[2][1])

\* The parameters of an instance are valid and q is the value derived from them.
Consistent(o) ==
    IF o.cls = "LogUniform"
    THEN /\ DOMAIN o.d = {"a", "b", "q"}
         /\ 0 < o.d.a.v /\ o.d.a.v < o.d.b.v
         /\ o.d.q = Fin(LnTab[o.d.b.v] - LnTab[o.d.a.v])
         /\ attr(o, "a") = o.d.a /\ attr(o, "b") = o.d.b
    ELSE /\ DOMAIN o.d = {"b", "knee", "q"}
         /\ 0 < o.d.knee.v /\ o.d.knee.v < o.d.b.v
         /\ o.d.q = Fin(LnTab[RDiv((o.d.b.v + o.d.knee.v) * S, o.d.knee.v)])
         /\ attr(o, "a") = Zero /\ attr(o, "b") = o.d.b /\ attr(o, "knee") = o.d.knee

\* C9: no step changes an existing instance or the class attributes, and every
\* instance is consistent: 0 < a < b (0 < knee < b), q derived from the bounds, and
\* its attributes resolve to its own values whatever happens to the other instance.
C9_Immutable ==
    [][/\ \A n \in Names : inst[n] # Absent => inst'[n] = inst[n]
       /\ classAttrs' = classAttrs
       /\ \A n \in Names : inst'[n] # Absent => Consistent(inst[n])']_vars

\* C9 witness: both instances exist, of different classes, and a method of one of
\* them has been called.
C9_Witness ==
    /\ inst["d1"].cls = "LogUniform"
    /\ inst["d2"].cls = "ModifiedLogUniform"
    /\ last.op \in {"rvs", "interval", "kurtosis"}

\* x is below (above) the support of o.
Below(o, x) == lt(x, Lower(o))
Above(o, x) == gt(x, o.d.b)

\* The calls C10 is about.
C10Ops == {"pdf", "logpdf", "cdf", "ppf", "sf"}

\* C10 as stated: none of pdf, logpdf, cdf, ppf, sf raises, and for an input outside
\* the domain (the support for x, [0, 1] for p) each returns 0, 1 or an infinity.
C10_NoFailureMasked ==
    last.op \in C10Ops =>
        /\ ~last.raised
        /\ (IF last.op = "ppf" THEN ~(le(Zero, Arg1) /\ le(Arg1, One))
            ELSE ~InSupport(Recv, Arg1))
           => last.out \in {Zero, One, PInf, NInf}

\* C10 amended: none of pdf, logpdf, cdf, ppf, sf raises. Outside the support pdf
\* returns 0 and logpdf -inf; LogUniform.cdf returns 0 below a and 1 above b, and
\* LogUniform.sf 1 and 0; the other calls return whatever number their formula gives.
C10_NoFailure ==
    last.op \in C10Ops =>
        /\ ~last.raised
        /\ IsNum(last.out)
        /\ (last.op = "pdf" /\ ~InSupport(Recv, Arg1)) => last.out = Zero
        /\ (last.op = "logpdf" /\ ~InSupport(Recv, Arg1)) => last.out = NInf
        /\ (last.op = "cdf" /\ Recv.cls = "LogUniform") =>
               /\ Below(Recv, Arg1) => last.out = Zero
               /\ Above(Recv, Arg1) => last.out = One
        /\ (last.op = "sf" /\ Recv.cls = "LogUniform") =>
               /\ Below(Recv, Arg1) => last.out = One
               /\ Above(Recv, Arg1) => last.out = Zero

\* C10 witness: cdf of a LogUniform was evaluated at x = 0, where the logarithm of
\* the masked branch is -inf, and returned 0.
C10_Witness ==
    /\ last.op = "cdf"
    /\ Recv.cls = "LogUniform"
    /\ Arg1 = Zero
    /\ last.out = Zero
\* C11: a constructor called with only one keyword argument (a, b or knee) raises
\* TypeError and binds no instance; when a keyword call succeeds, the instance's
\* parameters are the values passed, never the class attributes.
C11_MissingArgument ==
    last.op \in {"LogUniform_kw", "ModifiedLogUniform_kw"} =>
        LET kw == Arg1
        IN  /\ Cardinality(DOMAIN kw) = 1 =>
                   last.raised /\ last.out = TypeError /\ Recv = Absent
            /\ ~last.raised =>
                   IF last.op = "LogUniform_kw"
                   THEN /\ DOMAIN kw = {"a", "b"}
                        /\ attr(Recv, "a") = kw["a"]
                        /\ attr(Recv, "b") = kw["b"]
                   ELSE /\ DOMAIN kw = {"knee", "b"}
                        /\ attr(Recv, "knee") = kw["knee"]
                        /\ attr(Recv, "b") = kw["b"]

\* C11 witness: ModifiedLogUniform(b=2) was called and raised TypeError, although the
\* class has a knee attribute.
C11_Witness ==
    /\ last.op = "ModifiedLogUniform_kw"
    /\ DOMAIN Arg1 = {"b"}
    /\ last.out = TypeError
    /\ Recv = Absent
\* -ln(y) for the grid number y/S: nan for y < 0 and +inf for y = 0.
NegLn(y) == IF y < 0 THEN NaN ELSE IF y = 0 THEN PInf ELSE Fin(-LnTab[y])

====
